---- MODULE Spec2Model ----
(***************************************************************************)
(* FeeRate (units/src/fee_rate.rs): a u64 newtype holding a fee rate in    *)
(* sat/kwu, its unit conversions, its checked arithmetic and its operator  *)
(* surface over Amount and Weight.                                         *)
(*                                                                         *)
(* Every quantity of the program is a full 64-bit unsigned integer.  TLC's *)
(* own integers are 32 bits wide, so a u64 (and the exact mathematical     *)
(* value of an expression over u64s) is held as a natural number in radix  *)
(* 10^4: a sequence of limbs, least significant first, with no leading     *)
(* zero limb, so that equal numbers are equal sequences and zero is <<>>.  *)
(***************************************************************************)
EXTENDS Integers, Sequences, FiniteSets, TLC

VARIABLES
    overflow_checks,  \* build profile: TRUE = overflow checks on (debug), FALSE = off (release)
    a,                \* first u64 input of the last call (self / amount / slot before the call)
    b,                \* second u64 input of the last call (rhs / weight / vbytes)
    op,               \* name of the last operation applied
    out,              \* what the last operation returned
    slot,             \* a mutable FeeRate (`let mut f`), target of += and -=
    chain,            \* the same computation carried out with the non-assign operators
    steps,            \* number of compound assignments applied to slot
    items             \* the sequence of FeeRate values handed to Sum

vars == <<overflow_checks, a, b, op, out, slot, chain, steps, items>>

-----------------------------------------------------------------------------
(* Natural numbers in radix 10^4.                                          *)

Base == 10^4

RECURSIVE Nat2Big(_)
Nat2Big(n) == IF n = 0 THEN <<>> ELSE <<n % Base>> \o Nat2Big(n \div Base)

RECURSIVE Norm(_)
Norm(s) ==
    IF s = <<>> THEN <<>>
    ELSE IF s[Len(s)] = 0 THEN Norm(SubSeq(s, 1, Len(s) - 1))
    ELSE s

Limb0(s) == IF s = <<>> THEN 0 ELSE Head(s)
Rest0(s) == IF s = <<>> THEN <<>> ELSE Tail(s)

RECURSIVE BigAddC(_, _, _)
BigAddC(x, y, c) ==
    IF x = <<>> /\ y = <<>> THEN (IF c = 0 THEN <<>> ELSE <<c>>)
    ELSE LET t == Limb0(x) + Limb0(y) + c
         IN  <<t % Base>> \o BigAddC(Rest0(x), Rest0(y), t \div Base)

BigAdd(x, y) == BigAddC(x, y, 0)

\* x - y - c for x >= y + c, limb by limb with borrow.
RECURSIVE BigSubB(_, _, _)
BigSubB(x, y, c) ==
    IF x = <<>> THEN <<>>
    ELSE LET t == Limb0(x) - Limb0(y) - c
         IN  IF t < 0 THEN <<t + Base>> \o BigSubB(Rest0(x), Rest0(y), 1)
             ELSE <<t>> \o BigSubB(Rest0(x), Rest0(y), 0)

BigSub(x, y) == Norm(BigSubB(x, y, 0))

RECURSIVE BigLeFrom(_, _, _)
BigLeFrom(x, y, i) ==
    IF i = 0 THEN TRUE
    ELSE IF x[i] # y[i] THEN x[i] < y[i]
    ELSE BigLeFrom(x, y, i - 1)

BigLe(x, y) ==
    IF Len(x) # Len(y) THEN Len(x) < Len(y) ELSE BigLeFrom(x, y, Len(x))

BigLt(x, y) == ~BigLe(y, x)

\* x * d + c for a single limb d.
RECURSIVE BigMulLimbC(_, _, _)
BigMulLimbC(x, d, c) ==
    IF x = <<>> THEN (IF c = 0 THEN <<>> ELSE <<c>>)
    ELSE LET t == Head(x) * d + c
         IN  <<t % Base>> \o BigMulLimbC(Tail(x), d, t \div Base)

BigMulLimb(x, d) == Norm(BigMulLimbC(x, d, 0))

BigShift(x) == IF x = <<>> THEN <<>> ELSE <<0>> \o x

RECURSIVE BigMul(_, _)
BigMul(x, y) ==
    IF y = <<>> THEN <<>>
    ELSE BigAdd(BigMulLimb(x, Head(y)), BigShift(BigMul(x, Tail(y))))

\* The largest limb d in lo..hi with d * y <= r (lo * y <= r is given).
RECURSIVE QuotLimb(_, _, _, _)
QuotLimb(r, y, lo, hi) ==
    IF lo = hi THEN lo
    ELSE LET mid == (lo + hi + 1) \div 2
         IN  IF BigLe(BigMulLimb(y, mid), r) THEN QuotLimb(r, y, mid, hi)
             ELSE QuotLimb(r, y, lo, mid - 1)

\* Long division of the top i limbs of x by y # 0: <<quotient, remainder>>.
RECURSIVE BigDivModFrom(_, _, _)
BigDivModFrom(x, y, i) ==
    IF i > Len(x) THEN <<(<<>>), (<<>>)>>
    ELSE LET up == BigDivModFrom(x, y, i + 1)
             r  == Norm(<<x[i]>> \o up[2])
             d  == QuotLimb(r, y, 0, Base - 1)
         IN  <<Norm(<<d>> \o up[1]), BigSub(r, BigMulLimb(y, d))>>

BigDiv(x, y) == BigDivModFrom(x, y, 1)[1]
BigMod(x, y) == BigDivModFrom(x, y, 1)[2]

IsBig(x) == /\ x \in Seq(0 .. Base - 1)
            /\ (x # <<>> => x[Len(x)] # 0)

-----------------------------------------------------------------------------
(* The host's u64 and Option.                                              *)

\* u64::MAX = 18446744073709551615.
U64_MAX == <<1615, 955, 737, 6744, 1844>>

Two64 == BigAdd(U64_MAX, Nat2Big(1))

IsU64(x) == IsBig(x) /\ BigLe(x, U64_MAX)

None == [some |-> FALSE]
Some(v) == [some |-> TRUE, val |-> v]

\* An integer-arithmetic fault (overflow with overflow checks on, division
\* by zero): the call does not return.  Fault stands for it inside a u64
\* expression (it is no number), Panic at a typed result.
Fault == <<-1>>
Panic == [panic |-> TRUE]

u64_checked_add(x, y) ==
    LET s == BigAdd(x, y) IN IF BigLe(s, U64_MAX) THEN Some(s) ELSE None

u64_checked_sub(x, y) ==
    IF BigLe(y, x) THEN Some(BigSub(x, y)) ELSE None

u64_checked_mul(x, y) ==
    LET p == BigMul(x, y) IN IF BigLe(p, U64_MAX) THEN Some(p) ELSE None

u64_checked_div(x, y) ==
    IF y = <<>> THEN None ELSE Some(BigDiv(x, y))

\* The plain operators + - * / on u64.  An overflow faults when the build
\* has overflow checks and wraps modulo 2^64 when it has not; a division by
\* zero faults in every build.  A faulted operand faults the expression.
u64_add(x, y) ==
    IF x = Fault \/ y = Fault THEN Fault
    ELSE LET s == BigAdd(x, y)
         IN  IF BigLe(s, U64_MAX) THEN s
             ELSE IF overflow_checks THEN Fault
             ELSE BigSub(s, Two64)

u64_sub(x, y) ==
    IF x = Fault \/ y = Fault THEN Fault
    ELSE IF BigLe(y, x) THEN BigSub(x, y)
    ELSE IF overflow_checks THEN Fault
    ELSE BigSub(BigAdd(x, Two64), y)

u64_mul(x, y) ==
    IF x = Fault \/ y = Fault THEN Fault
    ELSE LET p == BigMul(x, y)
         IN  IF BigLe(p, U64_MAX) THEN p
             ELSE IF overflow_checks THEN Fault
             ELSE BigMod(p, Two64)

u64_div(x, y) ==
    IF x = Fault \/ y = Fault THEN Fault
    ELSE IF y = <<>> THEN Fault
    ELSE BigDiv(x, y)

-----------------------------------------------------------------------------
(* The collaborators Amount and Weight: u64 newtypes.                      *)

from_sat(sat) == [sat |-> sat]
to_sat(amount) == amount.sat

from_wu(wu) == [wu |-> wu]
to_wu(weight) == weight.wu

\* 1 vb == 4 wu; absent when the weight does not fit a u64.
from_vb(vb) ==
    LET r == u64_checked_mul(vb, Nat2Big(4))
    IN  IF r = None THEN None ELSE Some(from_wu(r.val))

-----------------------------------------------------------------------------
(* FeeRate.                                                                *)

FeeRate(sat_kwu) == [sat_kwu |-> sat_kwu]

\* FeeRate(e) and Amount::from_sat(e) for a u64 expression e: a faulted
\* expression builds no value.
FeeRateOf(x) == IF x = Fault THEN Panic ELSE FeeRate(x)
AmountOf(x) == IF x = Fault THEN Panic ELSE from_sat(x)

ZERO == FeeRate(<<>>)
MAX == FeeRate(U64_MAX)

from_sat_per_kwu(sat_kwu) == FeeRate(sat_kwu)

\* Faulty variant: scales by 1000 and forgets the division by 4.
from_sat_per_vb_unscaled(sat_vb) ==
    LET r == u64_checked_mul(sat_vb, Nat2Big(1000))
    IN  IF r = None THEN None ELSE Some(FeeRate(r.val))

from_sat_per_vb(sat_vb) ==
    LET r == u64_checked_mul(sat_vb, Nat2Big(1000 \div 4))
    IN  IF r = None THEN None ELSE Some(FeeRate(r.val))

to_sat_per_kwu(self) == self.sat_kwu

to_sat_per_vb_floor(self) ==
    u64_div(self.sat_kwu, Nat2Big(1000 \div 4))

to_sat_per_vb_ceil(self) ==
    u64_div(u64_add(self.sat_kwu, Nat2Big(1000 \div 4 - 1)),
            Nat2Big(1000 \div 4))

checked_mul(self, rhs) ==
    LET r == u64_checked_mul(self.sat_kwu, rhs)
    IN  IF r # None THEN Some(FeeRate(r.val)) ELSE None

checked_div(self, rhs) ==
    LET r == u64_checked_div(self.sat_kwu, rhs)
    IN  IF r # None THEN Some(FeeRate(r.val)) ELSE None

\* Faulty variant: divides without adding 999 first, so the fee is rounded down.
checked_mul_by_weight_floor(self, rhs) ==
    LET mul_res == u64_checked_mul(self.sat_kwu, to_wu(rhs))
    IN  IF mul_res # None
        THEN Some(from_sat(BigDiv(mul_res.val, Nat2Big(1000))))
        ELSE None

\* Faulty variant: adds 1000 instead of 999, so an exact fee is rounded up too.
checked_mul_by_weight_plus_1000(self, rhs) ==
    LET mul_res == u64_checked_mul(self.sat_kwu, to_wu(rhs))
    IN  IF mul_res # None
        THEN LET add_res == u64_checked_add(mul_res.val, Nat2Big(1000))
             IN  IF add_res # None
                 THEN Some(from_sat(BigDiv(add_res.val, Nat2Big(1000))))
                 ELSE None
        ELSE None

checked_mul_by_weight(self, rhs) ==
    LET mul_res == u64_checked_mul(self.sat_kwu, to_wu(rhs))
    IN  IF mul_res # None
        THEN LET add_res == u64_checked_add(mul_res.val, Nat2Big(999))
             IN  IF add_res # None
                 THEN Some(from_sat(BigDiv(add_res.val, Nat2Big(1000))))
                 ELSE None
        ELSE None

checked_add(self, rhs) ==
    LET r == u64_checked_add(self.sat_kwu, rhs)
    IN  IF r # None THEN Some(FeeRate(r.val)) ELSE None

\* Faulty variant: subtracts with the operands exchanged.
checked_sub_swapped(self, rhs) ==
    LET r == u64_checked_sub(rhs, self.sat_kwu)
    IN  IF r # None THEN Some(FeeRate(r.val)) ELSE None

checked_sub(self, rhs) ==
    LET r == u64_checked_sub(self.sat_kwu, rhs)
    IN  IF r # None THEN Some(FeeRate(r.val)) ELSE None

fee_wu(self, weight) == checked_mul_by_weight(self, weight)

\* Faulty variant: takes the vbytes for weight units.
fee_vb_as_wu(self, vb) == fee_wu(self, from_wu(vb))

fee_vb(self, vb) ==
    LET w == from_vb(vb)
    IN  IF w = None THEN None ELSE fee_wu(self, w.val)

\* impl Add / Sub for FeeRate, by value and by reference.
add(self, rhs) == FeeRateOf(u64_add(self.sat_kwu, rhs.sat_kwu))
add_ref_val(self, other) == FeeRateOf(u64_add(self.sat_kwu, other.sat_kwu))
add_val_ref(self, other) == FeeRateOf(u64_add(self.sat_kwu, other.sat_kwu))
add_ref_ref(self, other) == FeeRateOf(u64_add(self.sat_kwu, other.sat_kwu))

sub(self, rhs) == FeeRateOf(u64_sub(self.sat_kwu, rhs.sat_kwu))
sub_ref_val(self, other) == FeeRateOf(u64_sub(self.sat_kwu, other.sat_kwu))
sub_val_ref(self, other) == FeeRateOf(u64_sub(self.sat_kwu, other.sat_kwu))
sub_ref_ref(self, other) == FeeRateOf(u64_sub(self.sat_kwu, other.sat_kwu))

\* Faulty variant: divides without adding 999 first.
weight_mul_floor(self, rhs) ==
    AmountOf(
         u64_div(u64_mul(to_sat_per_kwu(rhs), to_wu(self)), Nat2Big(1000)))

\* impl Mul<FeeRate> for Weight.
weight_mul(self, rhs) ==
    AmountOf(
         u64_div(u64_add(u64_mul(to_sat_per_kwu(rhs), to_wu(self)), Nat2Big(999)),
                 Nat2Big(1000)))

\* impl Mul<Weight> for FeeRate.
fee_rate_mul(self, rhs) == weight_mul(rhs, self)

\* Faulty variant: rounds the quotient up.
amount_div_ceil(self, rhs) ==
    FeeRateOf(
         u64_div(u64_add(u64_mul(to_sat(self), Nat2Big(1000)),
                         u64_sub(to_wu(rhs), Nat2Big(1))),
                 to_wu(rhs)))

\* impl Div<Weight> for Amount.
amount_div(self, rhs) ==
    FeeRateOf(u64_div(u64_mul(to_sat(self), Nat2Big(1000)), to_wu(rhs)))

\* impl AddAssign / SubAssign for FeeRate: the slot after the assignment,
\* or Panic when the assignment faults (the slot is then never written).
add_assign(self, rhs) ==
    LET r == u64_add(self.sat_kwu, rhs.sat_kwu)
    IN  IF r = Fault THEN Panic ELSE [self EXCEPT !.sat_kwu = r]

add_assign_ref(self, rhs) ==
    LET r == u64_add(self.sat_kwu, rhs.sat_kwu)
    IN  IF r = Fault THEN Panic ELSE [self EXCEPT !.sat_kwu = r]

sub_assign(self, rhs) ==
    LET r == u64_sub(self.sat_kwu, rhs.sat_kwu)
    IN  IF r = Fault THEN Panic ELSE [self EXCEPT !.sat_kwu = r]

\* Faulty variant: -= by reference adds.
sub_assign_ref_adds(self, rhs) ==
    LET r == u64_add(self.sat_kwu, rhs.sat_kwu)
    IN  IF r = Fault THEN Panic ELSE [self EXCEPT !.sat_kwu = r]

sub_assign_ref(self, rhs) ==
    LET r == u64_sub(self.sat_kwu, rhs.sat_kwu)
    IN  IF r = Fault THEN Panic ELSE [self EXCEPT !.sat_kwu = r]

\* Iterator::sum over u64: a left fold of + from 0.
RECURSIVE u64_sum(_, _)
u64_sum(acc, s) ==
    IF s = <<>> THEN acc ELSE u64_sum(u64_add(acc, Head(s)), Tail(s))

\* Faulty variant: the by-reference sum drops the first item.
sum_ref_skips_first(iter) ==
    FeeRateOf(u64_sum(<<>>, [i \in 1 .. Len(iter) - 1 |-> to_sat_per_kwu(iter[i + 1])]))

\* impl Sum for FeeRate, and impl Sum<&FeeRate> for FeeRate.
sum(iter) ==
    FeeRateOf(u64_sum(<<>>, [i \in 1 .. Len(iter) |-> to_sat_per_kwu(iter[i])]))
sum_ref(iter) ==
    FeeRateOf(u64_sum(<<>>, [i \in 1 .. Len(iter) |-> to_sat_per_kwu(iter[i])]))

-----------------------------------------------------------------------------
(* Inputs.                                                                 *)

SmallMax == 2
TopSpan == 1
MaxSteps == 2
MaxLen == 3

N(n) == Nat2Big(n)

Small == {N(n) : n \in 0 .. SmallMax}

\* The values the unit tests use.
TestValues == {N(10), N(329), N(381), N(864)}

\* The top of the u64 range.
Top == {BigSub(U64_MAX, N(k)) : k \in 0 .. TopSpan}

\* The largest u64 whose multiple by d still fits, and its successor.
Edge(d) == {BigDiv(U64_MAX, N(d)), BigAdd(BigDiv(U64_MAX, N(d)), N(1))}

\* The largest u64 to which d can still be added, and its successor.
AddEdge(d) == {BigSub(U64_MAX, N(d)), BigSub(U64_MAX, N(d - 1))}

Inputs ==
    Small \cup TestValues \cup Top
        \cup Edge(2) \cup Edge(3) \cup Edge(4) \cup Edge(1000 \div 4) \cup Edge(1000)
        \cup {BigSub(BigDiv(U64_MAX, N(1000)), N(1))}
        \cup AddEdge(999) \cup AddEdge(1000 \div 4 - 1)

\* Operands of + and -: small values, the top of the range, and 2^63.
SlotInputs == Small \cup Top \cup {BigAdd(BigDiv(U64_MAX, N(2)), N(1))}

-----------------------------------------------------------------------------
(* One call of a constructor, conversion, checked operation or operator    *)
(* over Amount and Weight, on inputs a and b fixed at the start.           *)

Init ==
    /\ overflow_checks \in BOOLEAN
    /\ a \in Inputs
    /\ b \in Inputs
    /\ op = "init"
    /\ out = None
    /\ slot = ZERO
    /\ chain = ZERO
    /\ steps = 0
    /\ items = <<>>

Returns(name, result) ==
    /\ op = "init"
    /\ op' = name
    /\ out' = result
    /\ UNCHANGED <<overflow_checks, a, b, slot, chain, steps, items>>

Call_from_sat_per_vb == Returns("from_sat_per_vb", from_sat_per_vb(a))

Call_to_sat_per_vb_ceil ==
    Returns("to_sat_per_vb_ceil", to_sat_per_vb_ceil(from_sat_per_kwu(a)))

Call_checked_mul == Returns("checked_mul", checked_mul(from_sat_per_kwu(a), b))

Call_checked_div == Returns("checked_div", checked_div(from_sat_per_kwu(a), b))

Call_checked_add == Returns("checked_add", checked_add(from_sat_per_kwu(a), b))

Call_checked_sub == Returns("checked_sub", checked_sub(from_sat_per_kwu(a), b))

Call_checked_mul_by_weight ==
    Returns("checked_mul_by_weight",
            checked_mul_by_weight(from_sat_per_kwu(a), from_wu(b)))

Call_fee_wu == Returns("fee_wu", fee_wu(from_sat_per_kwu(a), from_wu(b)))

Call_fee_vb == Returns("fee_vb", fee_vb(from_sat_per_kwu(a), b))

Call_weight_mul ==
    Returns("weight_mul", weight_mul(from_wu(b), from_sat_per_kwu(a)))

Call_fee_rate_mul ==
    Returns("fee_rate_mul", fee_rate_mul(from_sat_per_kwu(a), from_wu(b)))

Call_amount_div == Returns("amount_div", amount_div(from_sat(a), from_wu(b)))

\* The rate just derived by Amount / Weight prices the same weight.
Call_price_derived ==
    /\ op = "amount_div"
    /\ out # Panic
    /\ op' = "price_derived"
    /\ out' = checked_mul_by_weight(out, from_wu(b))
    /\ UNCHANGED <<overflow_checks, a, b, slot, chain, steps, items>>

Next ==
    \/ Call_from_sat_per_vb
    \/ Call_to_sat_per_vb_ceil
    \/ Call_checked_mul
    \/ Call_checked_div
    \/ Call_checked_add
    \/ Call_checked_sub
    \/ Call_checked_mul_by_weight
    \/ Call_fee_wu
    \/ Call_fee_vb
    \/ Call_weight_mul
    \/ Call_fee_rate_mul
    \/ Call_amount_div
    \/ Call_price_derived

Spec == Init /\ [][Next]_vars

-----------------------------------------------------------------------------
(* A mutable FeeRate slot under the operators + and - and the compound     *)
(* assignments += and -=.  A fault ends the program.                       *)

Unit == [unit |-> TRUE]

InitSlot ==
    /\ overflow_checks \in BOOLEAN
    /\ slot \in {FeeRate(x) : x \in SlotInputs}
    /\ chain = slot
    /\ steps = 0
    /\ a = <<>>
    /\ b = <<>>
    /\ op = "init"
    /\ out = None
    /\ items = <<>>

\* `slot <op> rhs`: the slot is read, not written.
Operator(name, rhs, result) ==
    /\ out # Panic
    /\ a' = slot.sat_kwu
    /\ b' = rhs
    /\ op' = name
    /\ out' = result
    /\ UNCHANGED <<overflow_checks, slot, chain, steps, items>>

\* `slot <op>= rhs`: the slot is written unless the assignment faults;
\* chain applies the non-assign operator to the same operands.
Assign(name, rhs, after, chained) ==
    /\ out # Panic
    /\ steps < MaxSteps
    /\ a' = slot.sat_kwu
    /\ b' = rhs
    /\ op' = name
    /\ out' = IF after = Panic THEN Panic ELSE Unit
    /\ slot' = IF after = Panic THEN slot ELSE after
    /\ chain' = chained
    /\ steps' = steps + 1
    /\ UNCHANGED <<overflow_checks, items>>

Op_add == \E x \in SlotInputs : Operator("add", x, add(slot, FeeRate(x)))
Op_add_ref_val == \E x \in SlotInputs : Operator("add_ref_val", x, add_ref_val(slot, FeeRate(x)))
Op_add_val_ref == \E x \in SlotInputs : Operator("add_val_ref", x, add_val_ref(slot, FeeRate(x)))
Op_add_ref_ref == \E x \in SlotInputs : Operator("add_ref_ref", x, add_ref_ref(slot, FeeRate(x)))
Op_sub == \E x \in SlotInputs : Operator("sub", x, sub(slot, FeeRate(x)))
Op_sub_ref_val == \E x \in SlotInputs : Operator("sub_ref_val", x, sub_ref_val(slot, FeeRate(x)))
Op_sub_val_ref == \E x \in SlotInputs : Operator("sub_val_ref", x, sub_val_ref(slot, FeeRate(x)))
Op_sub_ref_ref == \E x \in SlotInputs : Operator("sub_ref_ref", x, sub_ref_ref(slot, FeeRate(x)))

Op_add_assign ==
    \E x \in SlotInputs :
        Assign("add_assign", x, add_assign(slot, FeeRate(x)), add(chain, FeeRate(x)))
Op_add_assign_ref ==
    \E x \in SlotInputs :
        Assign("add_assign_ref", x, add_assign_ref(slot, FeeRate(x)), add_val_ref(chain, FeeRate(x)))
Op_sub_assign ==
    \E x \in SlotInputs :
        Assign("sub_assign", x, sub_assign(slot, FeeRate(x)), sub(chain, FeeRate(x)))
Op_sub_assign_ref ==
    \E x \in SlotInputs :
        Assign("sub_assign_ref", x, sub_assign_ref(slot, FeeRate(x)), sub_val_ref(chain, FeeRate(x)))

NextSlot ==
    \/ Op_add
    \/ Op_add_ref_val
    \/ Op_add_val_ref
    \/ Op_add_ref_ref
    \/ Op_sub
    \/ Op_sub_ref_val
    \/ Op_sub_val_ref
    \/ Op_sub_ref_ref
    \/ Op_add_assign
    \/ Op_add_assign_ref
    \/ Op_sub_assign
    \/ Op_sub_assign_ref

SpecSlot == InitSlot /\ [][NextSlot]_vars

-----------------------------------------------------------------------------
(* Summing a sequence of FeeRate values.                                   *)

InitSum ==
    /\ overflow_checks \in BOOLEAN
    /\ items = <<>>
    /\ op = "init"
    /\ out = None
    /\ a = <<>>
    /\ b = <<>>
    /\ slot = ZERO
    /\ chain = ZERO
    /\ steps = 0

Push ==
    /\ Len(items) < MaxLen
    /\ \E x \in SlotInputs : items' = Append(items, FeeRate(x))
    /\ op' = "push"
    /\ out' = None
    /\ UNCHANGED <<overflow_checks, a, b, slot, chain, steps>>

Call_sum ==
    /\ op' = "sum"
    /\ out' = sum(items)
    /\ UNCHANGED <<overflow_checks, a, b, slot, chain, steps, items>>

Call_sum_ref ==
    /\ op' = "sum_ref"
    /\ out' = sum_ref(items)
    /\ UNCHANGED <<overflow_checks, a, b, slot, chain, steps, items>>

NextSum == Push \/ Call_sum \/ Call_sum_ref

SpecSum == InitSum /\ [][NextSum]_vars
-----------------------------------------------------------------------------
(* Properties.  Exact values are computed on unbounded naturals, and a     *)
(* quotient is characterised by its defining inequalities rather than by   *)
(* the division that the code performs.                                    *)

TypeOK == IsU64(a) /\ IsU64(b) /\ overflow_checks \in BOOLEAN

Fits(x) == BigLe(x, U64_MAX)

\* q = ceil(n / d): the least q with q * d >= n.
IsCeilDiv(q, n, d) ==
    /\ BigLe(n, BigMul(q, d))
    /\ q # <<>> => BigLt(BigMul(BigSub(q, N(1)), d), n)

\* q = floor(n / d): the greatest q with q * d <= n.
IsFloorDiv(q, n, d) ==
    /\ BigLe(BigMul(q, d), n)
    /\ BigLt(n, BigMul(BigAdd(q, N(1)), d))

IsSomeAmount(x) == x # None /\ x # Panic /\ DOMAIN x = {"some", "val"} /\ DOMAIN x.val = {"sat"}
IsSomeFeeRate(x) == x # None /\ x # Panic /\ DOMAIN x = {"some", "val"} /\ DOMAIN x.val = {"sat_kwu"}

\* C1: checked_mul_by_weight(r, w) is absent exactly when r*w + 999 exceeds
\* u64::MAX and is otherwise the Amount ceil(r*w / 1000), the least a with
\* a*1000 >= r*w; 864 sat/kwu over 381 wu gives 330.
C1_CheckedMulByWeightRoundsUp ==
    op = "checked_mul_by_weight" =>
        /\ out # Panic
        /\ (out = None) <=> ~Fits(BigAdd(BigMul(a, b), N(999)))
        /\ out # None =>
              /\ IsSomeAmount(out)
              /\ IsCeilDiv(out.val.sat, BigMul(a, b), N(1000))
        /\ (a = N(864) /\ b = N(381)) => out = Some(from_sat(N(330)))

\* The fee had a fractional part and was rounded up.
C1_Witness ==
    /\ op = "checked_mul_by_weight"
    /\ a = N(864)
    /\ b = N(381)
    /\ out = Some(from_sat(N(330)))
    /\ BigLt(BigMul(a, b), BigMul(N(330), N(1000)))

\* C2: for every raw u64 value x, to_sat_per_vb_ceil(x) * 250 >= x, and
\* when x > 0 also (to_sat_per_vb_ceil(x) - 1) * 250 < x.
C2_CeilNeverUnderstates ==
    op = "to_sat_per_vb_ceil" =>
        /\ out # Fault
        /\ IsCeilDiv(out, a, N(250))

\* C3: checked_add, checked_sub, checked_mul and checked_div never fault;
\* each returns the FeeRate of the exact result x+y, x-y, x*y, floor(x/y)
\* when that result lies in 0 .. 2^64-1 (and y # 0 for division), and the
\* absent value otherwise.
C3_CheckedArithmetic ==
    /\ op \in {"checked_add", "checked_sub", "checked_mul", "checked_div"} =>
          /\ out # Panic
          /\ out # None => IsSomeFeeRate(out)
    /\ op = "checked_add" =>
          out = IF Fits(BigAdd(a, b)) THEN Some(FeeRate(BigAdd(a, b))) ELSE None
    /\ op = "checked_sub" =>
          /\ (out = None) <=> BigLt(a, b)
          /\ out # None => BigAdd(out.val.sat_kwu, b) = a
    /\ op = "checked_mul" =>
          out = IF Fits(BigMul(a, b)) THEN Some(FeeRate(BigMul(a, b))) ELSE None
    /\ op = "checked_div" =>
          /\ (out = None) <=> (b = <<>>)
          /\ out # None => IsFloorDiv(out.val.sat_kwu, a, b)

\* FeeRate(10).checked_mul(u64::MAX) is absent.
C3_Witness ==
    /\ op = "checked_mul"
    /\ a = N(10)
    /\ b = U64_MAX
    /\ out = None

\* C4: from_sat_per_vb(sat_vb) is absent exactly when sat_vb * 250 overflows
\* 64 bits and is otherwise the FeeRate of exactly sat_vb * 250 sat/kwu;
\* it never faults.
C4_FromSatPerVb ==
    op = "from_sat_per_vb" =>
        /\ out # Panic
        /\ out = IF Fits(BigMul(a, N(250)))
                 THEN Some(FeeRate(BigMul(a, N(250))))
                 ELSE None
        /\ a = N(10) => out = Some(FeeRate(N(2500)))
        /\ a = U64_MAX => out = None

\* The least sat/vB value whose scaling overflows.
C4_Witness ==
    /\ op = "from_sat_per_vb"
    /\ a = BigAdd(BigDiv(U64_MAX, N(250)), N(1))
    /\ out = None

\* C5: r * w and w * r produce the same Amount; whenever
\* checked_mul_by_weight(r, w) returns a value the operators return that
\* same Amount, ceil(r*w/1000); they differ from the checked form only
\* where r*w + 999 overflows 64 bits, where the operators fault (overflow
\* checks on) or wrap (off) instead of returning absent.
C5_MulOperators ==
    op \in {"weight_mul", "fee_rate_mul"} =>
        LET r == from_sat_per_kwu(a)
            w == from_wu(b)
            checked == checked_mul_by_weight(r, w)
            wrapped == BigMod(BigAdd(BigMod(BigMul(a, b), Two64), N(999)), Two64)
        IN  /\ out = weight_mul(w, r)
            /\ out = fee_rate_mul(r, w)
            /\ out # None
            /\ checked # None =>
                  /\ out = checked.val
                  /\ IsCeilDiv(out.sat, BigMul(a, b), N(1000))
            /\ (out = Panic \/ Some(out) # checked) =>
                  ~Fits(BigAdd(BigMul(a, b), N(999)))
            /\ ~Fits(BigAdd(BigMul(a, b), N(999))) =>
                  /\ checked = None
                  /\ overflow_checks => out = Panic
                  /\ ~overflow_checks =>
                        /\ out # Panic
                        /\ IsFloorDiv(out.sat, wrapped, N(1000))

\* FeeRate * Weight wrapped where the checked form is absent.
C5_Witness ==
    /\ op = "fee_rate_mul"
    /\ ~overflow_checks
    /\ checked_mul_by_weight(from_sat_per_kwu(a), from_wu(b)) = None
    /\ out # Panic
    /\ out # from_sat(<<>>)

\* C6: fee_vb(r, vb) is absent when Weight::from_vb(vb) is absent (vb * 4
\* overflows 64 bits) and otherwise exactly checked_mul_by_weight(r, Weight
\* of 4*vb wu); fee_wu(r, w) equals checked_mul_by_weight(r, w).  Neither
\* faults.
C6_FeeVbFeeWu ==
    /\ op = "fee_vb" =>
          /\ out # Panic
          /\ ~Fits(BigMul(b, N(4))) => out = None
          /\ Fits(BigMul(b, N(4))) =>
                /\ out = checked_mul_by_weight(from_sat_per_kwu(a), from_wu(BigMul(b, N(4))))
                /\ (out = None) <=> ~Fits(BigAdd(BigMul(a, BigMul(b, N(4))), N(999)))
                /\ out # None =>
                      IsCeilDiv(out.val.sat, BigMul(a, BigMul(b, N(4))), N(1000))
    /\ op = "fee_wu" =>
          /\ out # Panic
          /\ out = checked_mul_by_weight(from_sat_per_kwu(a), from_wu(b))

\* 10 vbytes at 864 sat/kwu: 40 wu, 34560 / 1000 rounded up to 35 sat.
C6_Witness ==
    /\ op = "fee_vb"
    /\ a = N(864)
    /\ b = N(10)
    /\ out = Some(from_sat(N(35)))

\* C7: Amount / Weight truncates: for s satoshis and w > 0 wu with s*1000
\* representable in 64 bits the result is FeeRate(floor(s*1000 / w)) (329
\* sat / 381 wu is FeeRate 863); there is no absent outcome, w = 0 faults
\* and an overflowing s*1000 faults or wraps.
C7_AmountDivWeightTruncates ==
    op = "amount_div" =>
        LET wrapped == BigMod(BigMul(a, N(1000)), Two64)
        IN  /\ out # None
            /\ (b # <<>> /\ Fits(BigMul(a, N(1000)))) =>
                  /\ out # Panic
                  /\ DOMAIN out = {"sat_kwu"}
                  /\ IsFloorDiv(out.sat_kwu, BigMul(a, N(1000)), b)
            /\ b = <<>> => out = Panic
            /\ (b # <<>> /\ ~Fits(BigMul(a, N(1000)))) =>
                  /\ overflow_checks => out = Panic
                  /\ ~overflow_checks =>
                        /\ out # Panic
                        /\ IsFloorDiv(out.sat_kwu, wrapped, b)
            /\ (a = N(329) /\ b = N(381)) => out = FeeRate(N(863))

\* 329000 / 381 = 863.51..., truncated.
C7_Witness ==
    /\ op = "amount_div"
    /\ a = N(329)
    /\ b = N(381)
    /\ out = FeeRate(N(863))
    /\ BigLt(BigMul(N(863), b), BigMul(a, N(1000)))

\* C10: for s satoshis and w > 0 wu with s*1000 + 999 representable in 64
\* bits, the rate r = Amount(s) / w makes checked_mul_by_weight(r, w) return
\* a value a (never absent) with a <= s.
C10_DerivedRateNeverOvercharges ==
    (b # <<>> /\ Fits(BigAdd(BigMul(a, N(1000)), N(999)))) =>
        /\ op = "amount_div" => out # Panic
        /\ op = "price_derived" =>
              /\ IsSomeAmount(out)
              /\ BigLe(out.val.sat, a)

\* 329 sat over 381 wu derives 863 sat/kwu, which prices 381 wu at 329 sat.
C10_Witness ==
    /\ op = "price_derived"
    /\ a = N(329)
    /\ b = N(381)
    /\ out = Some(from_sat(N(329)))

-----------------------------------------------------------------------------
(* Properties of Sum.                                                      *)

\* The exact sum of the raw values.
RECURSIVE RawTotal(_)
RawTotal(s) == IF s = <<>> THEN <<>> ELSE BigAdd(Head(s).sat_kwu, RawTotal(Tail(s)))

\* ((ZERO + s[1]) + s[2]) + ... with the operator + of FeeRate.
RECURSIVE FoldAdd(_, _)
FoldAdd(acc, s) ==
    IF s = <<>> THEN acc
    ELSE IF acc = Panic THEN Panic
    ELSE FoldAdd(add(acc, Head(s)), Tail(s))

\* C8: summing a finite sequence of FeeRate values, by value or by
\* reference, equals from_sat_per_kwu of the sum of their raw values; the
\* empty sequence sums to ZERO, both Sum implementations agree, and the
\* result equals folding + over the sequence from ZERO; the accumulation is
\* unchecked, so a total above 2^64-1 has no absent outcome (it faults or
\* wraps).
C8_SumEqualsRawSum ==
    op \in {"sum", "sum_ref"} =>
        /\ out # None
        /\ Fits(RawTotal(items)) => out = from_sat_per_kwu(RawTotal(items))
        /\ items = <<>> => out = ZERO
        /\ out = sum(items)
        /\ out = sum_ref(items)
        /\ out = FoldAdd(ZERO, items)
        /\ ~Fits(RawTotal(items)) =>
              /\ overflow_checks => out = Panic
              /\ ~overflow_checks => out = FeeRate(BigMod(RawTotal(items), Two64))

\* Three values summed by reference, among them a large one, without overflow.
C8_Witness ==
    /\ op = "sum_ref"
    /\ Len(items) = 3
    /\ items[1] # ZERO /\ items[2] # ZERO /\ items[3] # ZERO
    /\ Fits(RawTotal(items))
    /\ BigLt(N(SmallMax * 3), RawTotal(items))
    /\ out = FeeRate(RawTotal(items))

-----------------------------------------------------------------------------
(* Properties of the operators + - += -= .                                 *)

AddOps == {"add", "add_ref_val", "add_val_ref", "add_ref_ref"}
SubOps == {"sub", "sub_ref_val", "sub_val_ref", "sub_ref_ref"}
AddAssignOps == {"add_assign", "add_assign_ref"}
SubAssignOps == {"sub_assign", "sub_assign_ref"}

\* C9: for a, b whose raw sum (resp. difference) is within 0 .. 2^64-1,
\* a + b = b + a, all four value/reference forms of + (resp. -) give the
\* FeeRate of raw value a+b (resp. a-b), after x += b (resp. x -= b) the
\* slot holds what x + b (resp. x - b) returns, and a sequence of compound
\* assignments leaves the value of the corresponding chain of operators.
C9_OperatorConsistency ==
    LET x == FeeRate(a)
        y == FeeRate(b)
    IN  /\ (op \in AddOps /\ Fits(BigAdd(a, b))) =>
              /\ out = FeeRate(BigAdd(a, b))
              /\ out = add(y, x)
              /\ out = add(x, y)
              /\ out = add_ref_val(x, y)
              /\ out = add_val_ref(x, y)
              /\ out = add_ref_ref(x, y)
        /\ (op \in SubOps /\ BigLe(b, a)) =>
              /\ DOMAIN out = {"sat_kwu"}
              /\ BigAdd(out.sat_kwu, b) = a
              /\ out = sub(x, y)
              /\ out = sub_ref_val(x, y)
              /\ out = sub_val_ref(x, y)
              /\ out = sub_ref_ref(x, y)
        /\ (op \in AddAssignOps /\ Fits(BigAdd(a, b))) =>
              /\ out = Unit
              /\ slot = add(x, y)
              /\ slot = FeeRate(BigAdd(a, b))
        /\ (op \in SubAssignOps /\ BigLe(b, a)) =>
              /\ out = Unit
              /\ slot = sub(x, y)
              /\ BigAdd(slot.sat_kwu, b) = a
        /\ out # Panic => slot = chain

\* Two compound assignments, the second a -= by reference, both in range.
C9_Witness ==
    /\ steps = 2
    /\ op = "sub_assign_ref"
    /\ b # <<>>
    /\ BigLe(b, a)
    /\ out = Unit
    /\ slot = chain
    /\ slot = sub(FeeRate(a), FeeRate(b))

====
